---- MODULE Spec2Model ----
(***************************************************************************)
(* Order recording and inventory depletion of the ordering bot:            *)
(* db_utils.insert_orders_from_bot and get_ingredient_current_inventory,   *)
(* with the depletion engine (inventory_depletion.deplete_inventory_from_  *)
(* order, imported at db_utils.py:5) modelled from its specification.      *)
(***************************************************************************)
EXTENDS Integers, Sequences, FiniteSets, TLC

(***************************************************************************)
(* Bounds of the model.                                                    *)
(***************************************************************************)
MaxItems == 2
MaxQty == 2
MaxBatches == 2

(***************************************************************************)
(* Python values.  None is the value dict.get gives for a missing key and  *)
(* the value a bare `return` gives.                                        *)
(***************************************************************************)
None == -1

\* Stands for an exception that leaves a function instead of a value.
Raised == -2

\* A name is a sequence of character codes (80 = P, 105 = i, 112 = p, ...).
Pi == <<80, 105>>
pI == <<112, 73>>
Te == <<84, 101>>
P == <<80>>

\* Mutation of Lower: the name is used as typed.
LowerNot(s) == s

\* str.lower() on one character and on a string.
LowerChar(c) == IF c >= 65 /\ c <= 90 THEN c + 32 ELSE c

Lower(s) == [k \in 1..Len(s) |-> LowerChar(s[k])]

(***************************************************************************)
(* Reference data of the store: the Meals table (name, meal_id), the       *)
(* Recipe_Ingredients table (meal_id, ingredient_id, quantity per unit)    *)
(* and the ingredient identifiers of the Ingredients table.                *)
(***************************************************************************)
Meals == << [name |-> Pi, meal_id |-> 1], [name |-> Te, meal_id |-> 0] >>

Ingredients == {1, 2}

Recipe_Ingredients ==
  { [meal_id |-> 1, ingredient_id |-> 1, qty |-> 2],
    [meal_id |-> 1, ingredient_id |-> 2, qty |-> 1],
    [meal_id |-> 0, ingredient_id |-> 2, qty |-> 1] }

InitialInventory == [g \in Ingredients |-> IF g = 1 THEN 3 ELSE 2]

\* The names a caller may ask for: exact, other letter case, a proper prefix.
ItemNames == {pI, Te, P}

\* The notes a caller may attach to an item; the empty string when none.
Notes == {"", "no onions"}

\* An item of the order: item_name, quantity and notes (test.py:8-12).
Item == [item_name : ItemNames, quantity : 1..MaxQty, notes : {""}]

NotedItem == [item_name : ItemNames, quantity : 1..MaxQty, notes : Notes]

SeqsUpTo(S, n) == UNION { [1..k -> S] : k \in 0..n }

Orders == SeqsUpTo(Item, MaxItems)

NotedOrders == SeqsUpTo(NotedItem, MaxItems)

\* The orders of two callers that run at the same time: one item each.
SingleItemOrders == { << it >> : it \in Item }

(***************************************************************************)
(* State.  The database: current_inventory of every ingredient, the rows   *)
(* of Order_Items that are committed, and the rows inserted on the         *)
(* connection but not yet committed.  Then the locals of the running call  *)
(* of insert_orders_from_bot, the locals of the depletion engine, and      *)
(* history variables: the database as the call found it, the number of     *)
(* batches, the fault met, and the calls made on the collaborators.  The  *)
(* engine keeps in `seen` the stock its check has read; `other` holds the  *)
(* engine of a second caller, used only where two callers run at once.     *)
(***************************************************************************)
VARIABLES stock, Order_Items, pending, clock,
          pc, conn, order_data, meal_name_to_id, orders_to_insert, order_id,
          warnings, i, ingredients_to_check, ingredients_before_depletion, j,
          deplete_status, outcome,
          required, todo, seen,
          other,
          stock0, Order_Items0, batches, fault, diag_failed, calls

db == <<stock, Order_Items, pending>>
locals == <<conn, order_data, meal_name_to_id, orders_to_insert, order_id,
            warnings, i, ingredients_to_check, ingredients_before_depletion, j,
            deplete_status>>
engine == <<required, todo, seen>>
history == <<stock0, Order_Items0, batches, fault, diag_failed, calls>>
vars == <<db, clock, pc, locals, outcome, engine, other, history>>

EmptyDict == [k \in {} |-> None]

NoCalls == [cursor |-> 0, catalog |-> 0, recipe |-> 0, read |-> 0,
            deplete |-> 0, executemany |-> 0, commit |-> 0, availability |-> 0,
            meals |-> {}]

\* The engine of a second caller before it is invoked.
OtherIdle == [pc |-> "idle", required |-> [g \in Ingredients |-> 0], todo |-> <<>>,
              seen |-> [g \in Ingredients |-> 0], status |-> ""]

Count(what) == [calls EXCEPT ![what] = @ + 1]

Init ==
  /\ stock = InitialInventory
  /\ Order_Items = <<>>
  /\ pending = <<>>
  /\ clock = 0
  /\ pc = "idle"
  /\ conn = "None"
  /\ order_data = <<>>
  /\ meal_name_to_id = EmptyDict
  /\ orders_to_insert = <<>>
  /\ order_id = None
  /\ warnings = <<>>
  /\ i = 1
  /\ ingredients_to_check = <<>>
  /\ ingredients_before_depletion = <<>>
  /\ j = 1
  /\ deplete_status = ""
  /\ outcome = ""
  /\ required = [g \in Ingredients |-> 0]
  /\ todo = <<>>
  /\ seen = [g \in Ingredients |-> 0]
  /\ other = OtherIdle
  /\ stock0 = InitialInventory
  /\ Order_Items0 = <<>>
  /\ batches = 0
  /\ fault = "none"
  /\ diag_failed = FALSE
  /\ calls = NoCalls

(***************************************************************************)
(* Pure parts of insert_orders_from_bot.                                   *)
(***************************************************************************)
\* db_utils.py:38: {name.lower(): meal_id for name, meal_id in rows}; a later
\* row with the same lowered name replaces an earlier one.
RECURSIVE MealNameToId(_)
MealNameToId(rows) ==
  IF rows = <<>> THEN EmptyDict
  ELSE LET last == rows[Len(rows)]
       IN (Lower(last.name) :> last.meal_id) @@ MealNameToId(SubSeq(rows, 1, Len(rows) - 1))

\* dict.get(key): the value, or None for a missing key.
Get(d, key) == IF key \in DOMAIN d THEN d[key] ELSE None

\* Python truth of a meal identifier or None (`if meal_id_for_item:`).
Truthy(v) == v # None /\ v # 0

\* Mutation of Accepted: the truth test of line 67 used at line 52.
AcceptedIfTruthy(meal_id) == Truthy(meal_id)

\* db_utils.py:52: the test that accepts an item into orders_to_insert.
Accepted(meal_id) == meal_id # None

\* Mutation of OrderId: the identifier does not depend on the time.
OrderIdFixed(now) == 0

\* db_utils.py:44: the order identifier is the formatted time of the call.
OrderId(now) == now

\* Mutation of OrderRow: meal identifier and quantity change places.
OrderRowSwapped(oid, meal_id, item) ==
  [order_id |-> oid, meal_id |-> item.quantity, quantity |-> meal_id]

\* db_utils.py:54: the tuple appended for an accepted item.
OrderRow(oid, meal_id, item) ==
  [order_id |-> oid, meal_id |-> meal_id, quantity |-> item.quantity]

\* db_utils.py:46-56: the lines to persist, in input order.
RECURSIVE OrdersToInsert(_, _, _)
OrdersToInsert(order, d, oid) ==
  IF order = <<>> THEN <<>>
  ELSE LET item == Head(order)
           meal_id == Get(d, Lower(item.item_name))
       IN (IF Accepted(meal_id) THEN << OrderRow(oid, meal_id, item) >> ELSE <<>>)
          \o OrdersToInsert(Tail(order), d, oid)

\* db_utils.py:55-56: one warning per item that was not accepted.
RECURSIVE Warnings(_, _)
Warnings(order, d) ==
  IF order = <<>> THEN <<>>
  ELSE LET item == Head(order)
           meal_id == Get(d, Lower(item.item_name))
       IN (IF Accepted(meal_id) THEN <<>> ELSE << item.item_name >>)
          \o Warnings(Tail(order), d)

\* Mutation of HasLines: the guard against an empty batch is missing.
HasLinesAlways(rows) == TRUE

\* db_utils.py:58: `if orders_to_insert:`.
HasLines(rows) == rows # <<>>

\* Mutation of ConnIsNone: the guard against a missing connection is gone.
ConnIsNoneNever(c) == FALSE

\* db_utils.py:29: `if conn is None:`.
ConnIsNone(c) == c = "None"

\* Ascending sequence of the members of a finite set of integers.
RECURSIVE SortedSeq(_)
SortedSeq(S) ==
  IF S = {} THEN <<>>
  ELSE LET m == CHOOSE x \in S : \A y \in S : x <= y
       IN << m >> \o SortedSeq(S \ {m})

\* db_utils.py:68-75: the rows of the recipe query for one meal.
RecipeRows(meal_id) ==
  SortedSeq({ r.ingredient_id : r \in { q \in Recipe_Ingredients : q.meal_id = meal_id } })

\* db_utils.py:75-76: ingredients_to_check[ing_id] = ..., for every row; a dict
\* keeps the position of a key it already holds.
RECURSIVE AddKeys(_, _)
AddKeys(keys, rows) ==
  IF rows = <<>> THEN keys
  ELSE AddKeys(IF \E k \in 1..Len(keys) : keys[k] = Head(rows)
               THEN keys ELSE Append(keys, Head(rows)),
               Tail(rows))

\* Mutation of GetIngredientCurrentInventory: the except clause of lines 20-22
\* is missing and the database error leaves the function.
GetIngredientCurrentInventoryUncaught(ingredient_id, c, inventory, err) ==
  IF c = "None" THEN None
  ELSE IF err THEN Raised
  ELSE IF ingredient_id \in DOMAIN inventory THEN inventory[ingredient_id]
  ELSE None

\* db_utils.py:8-22 get_ingredient_current_inventory: the inventory of the row,
\* or None without a connection, without a row, or on a database error.
GetIngredientCurrentInventory(ingredient_id, c, inventory, err) ==
  IF c = "None" THEN None
  ELSE IF err THEN None
  ELSE IF ingredient_id \in DOMAIN inventory THEN inventory[ingredient_id]
  ELSE None

\* Mutation of DepleteArg: only the items that were accepted are handed on.
DepleteArgAccepted(order, rows) ==
  SelectSeq(order, LAMBDA it : Accepted(Get(MealNameToId(Meals), Lower(it.item_name))))

\* db_utils.py:91: the order handed to deplete_inventory_from_order.
DepleteArg(order, rows) == order

\* Mutation of Falsy: the hard error of the engine goes unnoticed.
FalsyNever(status) == FALSE

\* db_utils.py:93: `not deplete_status`.
Falsy(status) == status = "False"

\* Mutation of Gate: the test for "not_enough" is missing.
GateWithoutNotEnough(status) == IF Falsy(status) THEN "notok-err" ELSE "persist"

\* Mutation of Gate: the status of the engine is ignored.
GateAlwaysPersist(status) == "persist"

\* db_utils.py:93-96: what the call does with the status of the engine:
\* return "notok-err", return "not_enough", or go on to persist.
Gate(status) ==
  IF Falsy(status) THEN "notok-err"
  ELSE IF status = "not_enough" THEN "not_enough"
  ELSE "persist"

(***************************************************************************)
(* The depletion engine, deplete_inventory_from_order(order, conn): the    *)
(* aggregation, the check and the decrement of the design, section 4.4.    *)
(***************************************************************************)
\* Section 4.1: a name matches a catalog name by exact equality ignoring case.
SameLetter(a, b) ==
  \/ a = b
  \/ a >= 65 /\ a <= 90 /\ b = a + 32
  \/ b >= 65 /\ b <= 90 /\ a = b + 32

SameIgnoringCase(s, t) ==
  Len(s) = Len(t) /\ \A k \in 1..Len(s) : SameLetter(s[k], t[k])

IsResolved(name) == \E m \in 1..Len(Meals) : SameIgnoringCase(name, Meals[m].name)

MealOf(name) ==
  Meals[CHOOSE m \in 1..Len(Meals) : SameIgnoringCase(name, Meals[m].name)].meal_id

\* The per-unit quantity of an ingredient in a meal's recipe (0 when absent).
PerUnit(meal_id, g) ==
  LET rs == { r \in Recipe_Ingredients : r.meal_id = meal_id /\ r.ingredient_id = g }
  IN IF rs = {} THEN 0 ELSE (CHOOSE r \in rs : TRUE).qty

\* Step 1: ingredient -> total quantity over all resolved lines of the order.
RECURSIVE EngineRequired(_, _)
EngineRequired(order, g) ==
  IF order = <<>> THEN 0
  ELSE LET item == Head(order)
       IN (IF IsResolved(item.item_name)
           THEN PerUnit(MealOf(item.item_name), g) * item.quantity ELSE 0)
          + EngineRequired(Tail(order), g)

\* Mutation of EngineSufficient: one ingredient with enough stock suffices.
EngineSufficientAny(req, inventory) == \E g \in Ingredients : req[g] <= inventory[g]

\* Step 2: every ingredient of the demand has enough stock.
EngineSufficient(req, inventory) == \A g \in Ingredients : req[g] <= inventory[g]

\* Mutation of EngineDecrementOne: the amount is taken off twice.
EngineDecrementTwice(inventory, g, amount) == [inventory EXCEPT ![g] = @ - 2 * amount]

\* Step 3: the decrement of one ingredient.
EngineDecrementOne(inventory, g, amount) == [inventory EXCEPT ![g] = @ - amount]

(***************************************************************************)
(* A caller invokes insert_orders_from_bot(order_data, conn, ignorevar).   *)
(* Batches run one at a time: a call starts when no call is running.       *)
(***************************************************************************)
Call(order, c) ==
  /\ pc = "idle"
  /\ batches < MaxBatches
  /\ batches' = batches + 1
  /\ clock' = clock + 1
  /\ pc' = "start"
  /\ conn' = c
  /\ order_data' = order
  /\ stock0' = stock
  /\ Order_Items0' = Order_Items
  /\ UNCHANGED <<db, meal_name_to_id, orders_to_insert, order_id, warnings, i,
                 ingredients_to_check, ingredients_before_depletion, j, deplete_status,
                 outcome, engine, fault, diag_failed, calls>>
  /\ UNCHANGED other

StartBatch ==
  /\ pc = "idle"
  /\ \E order \in Orders, c \in {"conn", "None"} : Call(order, c)

\* The call is over: its frame is discarded and the next batch may be handed in.
Return ==
  /\ pc = "done"
  /\ pc' = "idle"
  /\ conn' = "None"
  /\ order_data' = <<>>
  /\ meal_name_to_id' = EmptyDict
  /\ orders_to_insert' = <<>>
  /\ order_id' = None
  /\ warnings' = <<>>
  /\ i' = 1
  /\ ingredients_to_check' = <<>>
  /\ ingredients_before_depletion' = <<>>
  /\ j' = 1
  /\ deplete_status' = ""
  /\ outcome' = ""
  /\ required' = [g \in Ingredients |-> 0]
  /\ todo' = <<>>
  /\ seen' = [g \in Ingredients |-> 0]
  /\ stock0' = stock
  /\ Order_Items0' = Order_Items
  /\ fault' = "none"
  /\ diag_failed' = FALSE
  /\ calls' = NoCalls
  /\ UNCHANGED <<db, clock, batches>>
  /\ UNCHANGED other

\* db_utils.py:29-31: no connection, a bare return.
NoConnection ==
  /\ pc = "start"
  /\ ConnIsNone(conn)
  /\ pc' = "done"
  /\ outcome' = "None"
  /\ UNCHANGED <<db, clock, locals, engine, history>>
  /\ UNCHANGED other

\* db_utils.py:34-38: the cursor is opened and the catalog is read.
CatalogLookup ==
  /\ pc = "start"
  /\ ~ConnIsNone(conn)
  /\ meal_name_to_id' = MealNameToId(Meals)
  /\ calls' = [calls EXCEPT !.cursor = @ + 1, !.catalog = @ + 1]
  /\ pc' = "resolve"
  /\ UNCHANGED <<db, clock, conn, order_data, orders_to_insert, order_id, warnings, i,
                 ingredients_to_check, ingredients_before_depletion, j, deplete_status,
                 outcome, engine, stock0, Order_Items0, batches, fault, diag_failed>>
  /\ UNCHANGED other

\* db_utils.py:39-41: the catalog query raises mysql.connector.Error; a bare return.
CatalogFault ==
  /\ pc = "start"
  /\ ~ConnIsNone(conn)
  /\ calls' = [calls EXCEPT !.cursor = @ + 1, !.catalog = @ + 1]
  /\ fault' = "catalog"
  /\ pc' = "done"
  /\ outcome' = "None"
  /\ UNCHANGED <<db, clock, locals, engine, stock0, Order_Items0, batches, diag_failed>>
  /\ UNCHANGED other

\* db_utils.py:43-58: the order identifier and the resolution loop; with lines to
\* persist the call goes on to the pre-depletion check.
ResolveItems ==
  /\ pc = "resolve"
  /\ order_id' = OrderId(clock)
  /\ orders_to_insert' = OrdersToInsert(order_data, meal_name_to_id, OrderId(clock))
  /\ warnings' = Warnings(order_data, meal_name_to_id)
  /\ pc' = IF HasLines(orders_to_insert') THEN "recipes" ELSE "nothing"
  /\ UNCHANGED <<db, clock, conn, order_data, meal_name_to_id, i, ingredients_to_check,
                 ingredients_before_depletion, j, deplete_status, outcome, engine,
                 history>>
  /\ UNCHANGED other

\* db_utils.py:114-117: no valid order items; return "ok".
NothingToSave ==
  /\ pc = "nothing"
  /\ pc' = "done"
  /\ outcome' = "ok"
  /\ UNCHANGED <<db, clock, locals, engine, history>>
  /\ UNCHANGED other

\* db_utils.py:65-76: one iteration of the loop over order_data: the recipe query
\* of the item's meal when its identifier is truthy.
RecipeQuery ==
  /\ pc = "recipes"
  /\ i <= Len(order_data)
  /\ LET meal_id_for_item == Get(meal_name_to_id, Lower(order_data[i].item_name))
     IN IF Truthy(meal_id_for_item)
        THEN /\ calls' = [calls EXCEPT !.recipe = @ + 1, !.meals = @ \cup {meal_id_for_item}]
             /\ ingredients_to_check' = AddKeys(ingredients_to_check, RecipeRows(meal_id_for_item))
        ELSE UNCHANGED <<calls, ingredients_to_check>>
  /\ i' = i + 1
  /\ UNCHANGED <<db, clock, pc, conn, order_data, meal_name_to_id, orders_to_insert,
                 order_id, warnings, ingredients_before_depletion, j, deplete_status,
                 outcome, engine, stock0, Order_Items0, batches, fault, diag_failed>>
  /\ UNCHANGED other

\* db_utils.py:74: the recipe query raises; nothing catches it (the try of
\* lines 33 and 119-122 is commented out), the call ends with the exception.
RecipeFault ==
  /\ pc = "recipes"
  /\ i <= Len(order_data)
  /\ Truthy(Get(meal_name_to_id, Lower(order_data[i].item_name)))
  /\ calls' = [calls EXCEPT !.recipe = @ + 1,
                            !.meals = @ \cup {Get(meal_name_to_id, Lower(order_data[i].item_name))}]
  /\ fault' = "recipe"
  /\ pc' = "done"
  /\ outcome' = "raised"
  /\ UNCHANGED <<db, clock, locals, engine, stock0, Order_Items0, batches, diag_failed>>
  /\ UNCHANGED other

\* db_utils.py:65, 79: the loop is over.
RecipesDone ==
  /\ pc = "recipes"
  /\ i > Len(order_data)
  /\ pc' = "reads"
  /\ j' = 1
  /\ UNCHANGED <<db, clock, conn, order_data, meal_name_to_id, orders_to_insert, order_id,
                 warnings, i, ingredients_to_check, ingredients_before_depletion,
                 deplete_status, outcome, engine, history>>
  /\ UNCHANGED other

\* db_utils.py:80-83: one diagnostic read before depletion; a failed read is
\* skipped.  An exception leaving the read would end the call.
ReadBefore(err) ==
  /\ pc = "reads"
  /\ j <= Len(ingredients_to_check)
  /\ calls' = Count("read")
  /\ diag_failed' = (diag_failed \/ err)
  /\ LET ing_id == ingredients_to_check[j]
         inv == GetIngredientCurrentInventory(ing_id, conn, stock, err)
     IN IF inv = Raised
        THEN /\ fault' = "read"
             /\ pc' = "done"
             /\ outcome' = "raised"
             /\ UNCHANGED <<ingredients_before_depletion, j>>
        ELSE /\ ingredients_before_depletion' =
                  IF inv # None THEN Append(ingredients_before_depletion, ing_id)
                  ELSE ingredients_before_depletion
             /\ j' = j + 1
             /\ UNCHANGED <<fault, pc, outcome>>
  /\ UNCHANGED <<db, clock, conn, order_data, meal_name_to_id, orders_to_insert,
                 order_id, warnings, i, ingredients_to_check, deplete_status,
                 engine, stock0, Order_Items0, batches>>
  /\ UNCHANGED other

\* db_utils.py:91: deplete_inventory_from_order is called; the engine aggregates
\* the demand of the order it was given.
DepleteCall ==
  /\ pc = "reads"
  /\ j > Len(ingredients_to_check)
  /\ calls' = Count("deplete")
  /\ required' = [g \in Ingredients |->
                    EngineRequired(DepleteArg(order_data, orders_to_insert), g)]
  /\ pc' = "engine_check"
  /\ UNCHANGED <<db, clock, locals, outcome, todo, seen, stock0, Order_Items0, batches, fault,
                 diag_failed>>
  /\ UNCHANGED other

\* Engine, step 2: the check of every ingredient against the ledger.
EngineCheck ==
  /\ pc = "engine_check"
  /\ seen' = stock
  /\ IF EngineSufficient(required, stock)
     THEN /\ todo' = SortedSeq({ g \in Ingredients : required[g] > 0 })
          /\ pc' = "engine_decrement"
          /\ UNCHANGED deplete_status
     ELSE /\ deplete_status' = "not_enough"
          /\ pc' = "returned"
          /\ UNCHANGED todo
  /\ UNCHANGED <<db, clock, conn, order_data, meal_name_to_id, orders_to_insert, order_id,
                 warnings, i, ingredients_to_check, ingredients_before_depletion, j,
                 outcome, required, history>>
  /\ UNCHANGED other

\* Engine, step 3: one ingredient is decremented.
EngineDecrement ==
  /\ pc = "engine_decrement"
  /\ todo # <<>>
  /\ stock' = EngineDecrementOne(stock, Head(todo), required[Head(todo)])
  /\ todo' = Tail(todo)
  /\ UNCHANGED <<Order_Items, pending, clock, pc, locals, outcome, required, seen, history>>
  /\ UNCHANGED other

\* Engine: every decrement is applied; the engine reports success.
EngineReturn ==
  /\ pc = "engine_decrement"
  /\ todo = <<>>
  /\ deplete_status' = "ok"
  /\ pc' = "returned"
  /\ UNCHANGED <<db, clock, conn, order_data, meal_name_to_id, orders_to_insert, order_id,
                 warnings, i, ingredients_to_check, ingredients_before_depletion, j,
                 outcome, engine, history>>
  /\ UNCHANGED other

\* Engine: a data-access fault during the check or a decrement; the engine
\* reports a hard error (a false status) and reverses nothing.
EngineFault ==
  /\ \/ pc = "engine_check"
     \/ pc = "engine_decrement" /\ todo # <<>>
  /\ deplete_status' = "False"
  /\ fault' = "engine"
  /\ pc' = "returned"
  /\ UNCHANGED <<db, clock, conn, order_data, meal_name_to_id, orders_to_insert, order_id,
                 warnings, i, ingredients_to_check, ingredients_before_depletion, j,
                 outcome, engine, stock0, Order_Items0, batches, diag_failed, calls>>
  /\ UNCHANGED other

\* db_utils.py:93-96: a failed depletion ends the call with its outcome.
ReturnFailure ==
  /\ pc = "returned"
  /\ Gate(deplete_status) # "persist"
  /\ outcome' = Gate(deplete_status)
  /\ pc' = "done"
  /\ UNCHANGED <<db, clock, locals, engine, history>>
  /\ UNCHANGED other

\* db_utils.py:93-100: a successful depletion; on to the post-depletion check.
Proceed ==
  /\ pc = "returned"
  /\ Gate(deplete_status) = "persist"
  /\ pc' = "after"
  /\ j' = 1
  /\ UNCHANGED <<db, clock, conn, order_data, meal_name_to_id, orders_to_insert, order_id,
                 warnings, i, ingredients_to_check, ingredients_before_depletion,
                 deplete_status, outcome, engine, history>>
  /\ UNCHANGED other

\* db_utils.py:100-103: one diagnostic read after depletion.
ReadAfter(err) ==
  /\ pc = "after"
  /\ j <= Len(ingredients_before_depletion)
  /\ calls' = Count("read")
  /\ diag_failed' = (diag_failed \/ err)
  /\ LET inv == GetIngredientCurrentInventory(ingredients_before_depletion[j], conn, stock, err)
     IN IF inv = Raised
        THEN /\ fault' = "read"
             /\ pc' = "done"
             /\ outcome' = "raised"
             /\ UNCHANGED j
        ELSE /\ j' = j + 1
             /\ UNCHANGED <<fault, pc, outcome>>
  /\ UNCHANGED <<db, clock, conn, order_data, meal_name_to_id, orders_to_insert,
                 order_id, warnings, i, ingredients_to_check,
                 ingredients_before_depletion, deplete_status, engine, stock0,
                 Order_Items0, batches>>
  /\ UNCHANGED other

\* db_utils.py:106-110: executemany inserts the lines on the connection.
InsertLines ==
  /\ pc = "after"
  /\ j > Len(ingredients_before_depletion)
  /\ pending' = orders_to_insert
  /\ calls' = Count("executemany")
  /\ pc' = "commit"
  /\ UNCHANGED <<stock, Order_Items, clock, locals, outcome, engine, stock0, Order_Items0, batches,
                 fault, diag_failed>>
  /\ UNCHANGED other

\* db_utils.py:110: executemany raises; nothing catches it.
InsertFault ==
  /\ pc = "after"
  /\ j > Len(ingredients_before_depletion)
  /\ calls' = Count("executemany")
  /\ fault' = "insert"
  /\ pc' = "done"
  /\ outcome' = "raised"
  /\ UNCHANGED <<db, clock, locals, engine, stock0, Order_Items0, batches, diag_failed>>
  /\ UNCHANGED other

\* db_utils.py:111-117: the commit makes the lines durable; return "ok".
Commit ==
  /\ pc = "commit"
  /\ Order_Items' = Order_Items \o pending
  /\ pending' = <<>>
  /\ calls' = Count("commit")
  /\ pc' = "done"
  /\ outcome' = "ok"
  /\ UNCHANGED <<stock, clock, locals, engine, stock0, Order_Items0, batches, fault, diag_failed>>
  /\ UNCHANGED other

\* db_utils.py:111: the commit raises; the inserted lines never become durable
\* and nothing catches the exception.
CommitFault ==
  /\ pc = "commit"
  /\ pending' = <<>>
  /\ calls' = Count("commit")
  /\ fault' = "commit"
  /\ pc' = "done"
  /\ outcome' = "raised"
  /\ UNCHANGED <<stock, Order_Items, clock, locals, engine, stock0, Order_Items0, batches,
                 diag_failed>>
  /\ UNCHANGED other

Next ==
  \/ StartBatch
  \/ NoConnection
  \/ CatalogLookup
  \/ CatalogFault
  \/ ResolveItems
  \/ NothingToSave
  \/ RecipeQuery
  \/ RecipeFault
  \/ RecipesDone
  \/ \E err \in BOOLEAN : ReadBefore(err)
  \/ DepleteCall
  \/ EngineCheck
  \/ EngineDecrement
  \/ EngineReturn
  \/ EngineFault
  \/ ReturnFailure
  \/ Proceed
  \/ \E err \in BOOLEAN : ReadAfter(err)
  \/ InsertLines
  \/ InsertFault
  \/ Commit
  \/ CommitFault
  \/ Return

Spec == Init /\ [][Next]_vars

(***************************************************************************)
(* Callers that attach notes to their items (test.py:118-122).             *)
(***************************************************************************)
StartNotedBatch ==
  /\ pc = "idle"
  /\ \E order \in NotedOrders, c \in {"conn", "None"} : Call(order, c)

NextNotes ==
  \/ StartNotedBatch
  \/ NoConnection
  \/ CatalogLookup
  \/ CatalogFault
  \/ ResolveItems
  \/ NothingToSave
  \/ RecipeQuery
  \/ RecipeFault
  \/ RecipesDone
  \/ \E err \in BOOLEAN : ReadBefore(err)
  \/ DepleteCall
  \/ EngineCheck
  \/ EngineDecrement
  \/ EngineReturn
  \/ EngineFault
  \/ ReturnFailure
  \/ Proceed
  \/ \E err \in BOOLEAN : ReadAfter(err)
  \/ InsertLines
  \/ InsertFault
  \/ Commit
  \/ CommitFault
  \/ Return

SpecNotes == Init /\ [][NextNotes]_vars

(***************************************************************************)
(* Two callers at the same time.  Nothing in insert_orders_from_bot locks  *)
(* the ledger around the call of the engine (db_utils.py:91), so the steps *)
(* of a second engine may fall between any two steps of the first.  The    *)
(* second caller is reduced to its engine: the check and the decrements.   *)
(***************************************************************************)
StartConcurrent ==
  /\ pc = "idle"
  /\ \E order \in SingleItemOrders : Call(order, "conn")

OtherCall(order) ==
  /\ other.pc = "idle"
  /\ other' = [other EXCEPT !.pc = "check",
                            !.required = [g \in Ingredients |-> EngineRequired(order, g)]]
  /\ UNCHANGED <<db, clock, pc, locals, outcome, engine, history>>

StartOther == \E order \in SingleItemOrders : OtherCall(order)

\* Engine of the second caller, step 2.
OtherCheck ==
  /\ other.pc = "check"
  /\ other' = IF EngineSufficient(other.required, stock)
              THEN [other EXCEPT !.pc = "decrement", !.seen = stock,
                                 !.todo = SortedSeq({ g \in Ingredients : other.required[g] > 0 })]
              ELSE [other EXCEPT !.pc = "done", !.seen = stock, !.status = "not_enough"]
  /\ UNCHANGED <<db, clock, pc, locals, outcome, engine, history>>

\* Engine of the second caller, step 3: one ingredient is decremented.
OtherDecrement ==
  /\ other.pc = "decrement"
  /\ other.todo # <<>>
  /\ stock' = EngineDecrementOne(stock, Head(other.todo), other.required[Head(other.todo)])
  /\ other' = [other EXCEPT !.todo = Tail(@)]
  /\ UNCHANGED <<Order_Items, pending, clock, pc, locals, outcome, engine, history>>

OtherReturn ==
  /\ other.pc = "decrement"
  /\ other.todo = <<>>
  /\ other' = [other EXCEPT !.pc = "done", !.status = "ok"]
  /\ UNCHANGED <<db, clock, pc, locals, outcome, engine, history>>

NextConcurrent ==
  \/ StartConcurrent
  \/ CatalogLookup
  \/ ResolveItems
  \/ NothingToSave
  \/ RecipeQuery
  \/ RecipesDone
  \/ ReadBefore(FALSE)
  \/ DepleteCall
  \/ EngineCheck
  \/ EngineDecrement
  \/ EngineReturn
  \/ ReturnFailure
  \/ Proceed
  \/ ReadAfter(FALSE)
  \/ InsertLines
  \/ Commit
  \/ StartOther
  \/ OtherCheck
  \/ OtherDecrement
  \/ OtherReturn

SpecConcurrent == Init /\ [][NextConcurrent]_vars

(***************************************************************************)
(* Properties.  The outcomes of the design are the return values of the    *)
(* code: ok is "ok", insufficient_stock is "not_enough", hard_error is     *)
(* "notok-err"; "None" is a bare return and "raised" an escaping exception.*)
(***************************************************************************)
Running == pc # "idle"

\* The lines of the running batch that are durable.
Persisted == SubSeq(Order_Items, Len(Order_Items0) + 1, Len(Order_Items))

C2_StockNeverNegative == \A g \in Ingredients : stock[g] >= 0

\* A second batch in the middle of its decrement phase.
C2_Witness ==
  /\ batches = 2
  /\ pc = "engine_decrement"
  /\ Len(todo) = 1
  /\ stock # stock0
  /\ stock0 # InitialInventory

\* The aggregated demand of a batch for one ingredient: the sum, over the
\* items whose name is a catalog name ignoring case, of quantity per unit
\* times ordered quantity.
Demand(order, g) ==
  LET RECURSIVE Sum(_)
      Sum(k) == IF k = 0 THEN 0
                ELSE Sum(k - 1)
                     + (IF IsResolved(order[k].item_name)
                        THEN PerUnit(MealOf(order[k].item_name), g) * order[k].quantity
                        ELSE 0)
  IN Sum(Len(order))

NumResolved(order) == Cardinality({ k \in 1..Len(order) : IsResolved(order[k].item_name) })

\* No data-access fault was met and the call was given a connection.
Undisturbed == conn # "None" /\ fault = "none"

\* C3: in a batch in which the aggregated demand of at least one ingredient
\* exceeds its stock, no ingredient is ever decremented (the stock stays what
\* it was before the call), no order line is inserted or persisted, and the
\* call, when it runs with a connection and meets no data-access fault, ends
\* with the outcome insufficient_stock ("not_enough").
C3_InsufficientStockChangesNothing ==
  Running /\ (\E g \in Ingredients : Demand(order_data, g) > stock0[g]) =>
    /\ stock = stock0
    /\ pending = <<>>
    /\ Order_Items = Order_Items0
    /\ pc = "done" /\ Undisturbed => outcome = "not_enough"

\* Dough is short while the demand for cheese alone could be met.
C3_Witness ==
  /\ pc = "done"
  /\ outcome = "not_enough"
  /\ Demand(order_data, 2) > stock0[2]
  /\ Demand(order_data, 1) > 0
  /\ Demand(order_data, 1) <= stock0[1]
  /\ stock = stock0

\* C4: a batch in which the aggregated demand of every ingredient is within
\* its stock, run with a connection and without a data-access fault, ends with
\* the outcome ok, persists as many order lines as it has resolved items, and
\* leaves every ingredient with its old stock minus its aggregated demand.
C4_SufficientStockDepletesExactly ==
  pc = "done" /\ Undisturbed /\ (\A g \in Ingredients : Demand(order_data, g) <= stock0[g]) =>
    /\ outcome = "ok"
    /\ Len(Persisted) = NumResolved(order_data)
    /\ \A g \in Ingredients : stock[g] = stock0[g] - Demand(order_data, g)

\* Two lines of the same meal, and a second meal sharing an ingredient.
C4_Witness ==
  /\ pc = "done"
  /\ outcome = "ok"
  /\ Len(order_data) = 2
  /\ NumResolved(order_data) = 2
  /\ order_data[1].item_name = order_data[2].item_name
  /\ Demand(order_data, 2) = 2
  /\ stock[2] = stock0[2] - 2
  /\ Len(Persisted) = 2

DepletedByDemand == \A g \in Ingredients : stock[g] = stock0[g] - Demand(order_data, g)

\* C5: however a batch ends (ok, insufficient_stock, hard_error, or an
\* exception of the order-line insert or of the commit after a successful
\* depletion), the stock has been decremented by the aggregated demand of the
\* batch if and only if the order lines of the batch are committed.
C5_CommittedLinesMatchDepletedStock ==
  pc = "done" =>
    /\ stock # stock0 => Persisted # <<>>
    /\ (\E g \in Ingredients : Demand(order_data, g) > 0) =>
         (DepletedByDemand <=> Persisted # <<>>)

C7_NothingResolvedOnlyCatalogLookup ==
  Running /\ NumResolved(order_data) = 0 =>
    /\ calls.catalog <= 1
    /\ calls.recipe = 0
    /\ calls.read = 0
    /\ calls.deplete = 0
    /\ calls.executemany = 0
    /\ calls.commit = 0
    /\ pending = <<>>
    /\ Order_Items = Order_Items0
    /\ stock = stock0
    /\ pc = "done" /\ Undisturbed => outcome = "ok" /\ calls.catalog = 1

\* Two items, none of them in the catalog.
C7_Witness ==
  /\ pc = "done"
  /\ Len(order_data) = 2
  /\ NumResolved(order_data) = 0
  /\ outcome = "ok"
  /\ calls.catalog = 1
  /\ Len(warnings) = 2

\* C8: every call returns one of ok, insufficient_stock and hard_error.
C8_ThreeOutcomesOnly ==
  pc = "done" => outcome \in {"ok", "not_enough", "notok-err"}

\* The resolved items of an order and the names of the others, in input order.
ResolvedItems(order) == SelectSeq(order, LAMBDA it : IsResolved(it.item_name))

UnresolvedNames(order) ==
  LET rest == SelectSeq(order, LAMBDA it : ~IsResolved(it.item_name))
  IN [k \in 1..Len(rest) |-> rest[k].item_name]

\* The resolution loop of the running call is over.
ResolutionDone ==
  pc \notin {"idle", "start", "resolve"} /\ conn # "None" /\ fault # "catalog"

\* C9: an item is resolved exactly when its name equals a catalog name
\* ignoring letter case: the lines to persist are the meals of those items, in
\* input order; every other item is dropped and reported by one warning; and
\* such an item does not keep the resolved ones from depletion and persistence.
C9_CaseInsensitiveResolution ==
  ResolutionDone =>
    /\ Len(orders_to_insert) = NumResolved(order_data)
    /\ \A k \in 1..Len(orders_to_insert) :
         orders_to_insert[k].meal_id = MealOf(ResolvedItems(order_data)[k].item_name)
    /\ warnings = UnresolvedNames(order_data)
    /\ NumResolved(order_data) > 0 =>
         /\ pc # "nothing"
         /\ pc = "done" /\ fault = "none" =>
              /\ calls.deplete = 1
              /\ deplete_status = "ok" => Persisted = orders_to_insert

\* A name in another letter case and a proper prefix of a catalog name.
C9_Witness ==
  /\ pc = "done"
  /\ outcome = "ok"
  /\ Len(order_data) = 2
  /\ order_data[1].item_name = P
  /\ order_data[2].item_name = pI
  /\ warnings = << P >>
  /\ Len(Persisted) = 1
  /\ Persisted[1].meal_id = 1

\* The lines a batch is to persist: one per resolved item, in input order.
ExpectedLines ==
  LET items == ResolvedItems(order_data)
  IN [k \in 1..Len(items) |->
        [order_id |-> order_id, meal_id |-> MealOf(items[k].item_name),
         quantity |-> items[k].quantity]]

\* C10: when the depletion outcome is ok, the lines handed to the insert, and
\* persisted by the commit, are one per resolved item, in input order, each
\* with the meal identifier and the quantity of its item, and all with the one
\* order identifier of the batch.
C10_OneLinePerResolvedItem ==
  /\ pc = "commit" => pending = ExpectedLines
  /\ pc = "done" /\ outcome = "ok" /\ deplete_status = "ok" =>
       /\ Persisted = ExpectedLines
       /\ \A k \in 1..Len(Persisted) : Persisted[k].order_id = Persisted[1].order_id

C10_Witness ==
  /\ pc = "done"
  /\ outcome = "ok"
  /\ Len(order_data) = 2
  /\ Len(Persisted) = 2
  /\ Persisted[1].meal_id = 0
  /\ Persisted[2].meal_id = 1
  /\ Persisted[1].order_id = Persisted[2].order_id
  /\ batches = 2

\* C11: every order line a batch has persisted carries the notes of its item
\* (the empty notes when the caller gave none), next to the order identifier,
\* the meal identifier and the quantity.
C11_PersistedLinesCarryNotes ==
  pc = "done" =>
    \A k \in 1..Len(Persisted) :
      /\ DOMAIN Persisted[k] = {"order_id", "meal_id", "quantity", "notes"}
      /\ Persisted[k].notes = ResolvedItems(order_data)[k].notes

\* C12: the meal-availability recomputation is invoked exactly once by a batch
\* whose lines were committed, and not before the commit; a batch that commits
\* no line (empty, without connection, insufficient stock, hard error) never
\* invokes it.
C12_AvailabilityOncePerCommittedBatch ==
  /\ calls.availability > 0 => Persisted # <<>>
  /\ pc = "done" /\ Persisted # <<>> => calls.availability = 1

\* C13: a call without a connection, whatever its order, opens no cursor, runs
\* no query, does not invoke the depletion engine, inserts and commits nothing,
\* and leaves stock and order lines as they were.
C13_NoConnectionTouchesNothing ==
  Running /\ conn = "None" =>
    /\ calls = NoCalls
    /\ pending = <<>>
    /\ Order_Items = Order_Items0
    /\ stock = stock0
    /\ meal_name_to_id = EmptyDict
    /\ orders_to_insert = <<>>

\* An order whose two items would both resolve, handed in without a connection.
C13_Witness ==
  /\ pc = "done"
  /\ conn = "None"
  /\ Len(order_data) = 2
  /\ NumResolved(order_data) = 2
  /\ \A g \in Ingredients : Demand(order_data, g) <= stock[g]
  /\ calls.cursor = 0

\* C14: a batch that met a data-access fault in the catalog lookup, in a recipe
\* lookup, or in the check or a decrement of the engine ends with the outcome
\* hard_error ("notok-err") and with none of its lines inserted or persisted.
C14_AnyFaultIsHardError ==
  pc = "done" /\ fault \in {"catalog", "recipe", "engine"} =>
    /\ outcome = "notok-err"
    /\ Persisted = <<>>
    /\ pending = <<>>

\* C15: a diagnostic stock read that fails is absorbed: the depletion engine is
\* still invoked once the reads are over, the call never ends with hard_error
\* or an exception on account of the read, and a batch that meets no other
\* fault ends with the outcome and the persisted lines that the order and the
\* stock alone decide (ok and one line per resolved item when every demand is
\* within stock, insufficient_stock and no line otherwise).
C15_FailedDiagnosticReadChangesNothing ==
  diag_failed =>
    /\ fault # "read"
    /\ pc # "reads" => calls.deplete = 1
    /\ outcome = "notok-err" => fault = "engine"
    /\ pc = "done" /\ fault = "none" =>
         /\ outcome = IF \A g \in Ingredients : Demand(order_data, g) <= stock0[g]
                      THEN "ok" ELSE "not_enough"
         /\ Persisted = IF outcome = "ok" THEN ExpectedLines ELSE <<>>

\* A committed batch whose reads before and after depletion failed.
C15_Witness ==
  /\ pc = "done"
  /\ diag_failed
  /\ outcome = "ok"
  /\ ingredients_before_depletion # ingredients_to_check
  /\ ingredients_before_depletion # <<>>
  /\ Len(Persisted) = 2

\* The distinct meals of the lines to persist.
DistinctMeals == { orders_to_insert[k].meal_id : k \in 1..Len(orders_to_insert) }

\* C16: when the recipe lookups of a batch are over (the engine has been
\* called), their number is the number of distinct resolved meals of the
\* order, not the number of its lines.
C16_OneRecipeQueryPerDistinctMeal ==
  calls.deplete = 1 => calls.recipe = Cardinality(DistinctMeals)

\* The engine of either caller has passed its check.
MainPassed == pc = "engine_decrement" \/ deplete_status = "ok"

OtherPassed == other.pc = "decrement" \/ other.status = "ok"

\* C17: with two batches whose engine steps interleave, the stock of an
\* ingredient can end below zero (the witness), and it does so only when both
\* engines passed their check having read the same stock of that ingredient,
\* that is, when neither check saw the decrement of the other; a batch that
\* checks after the other has decremented never drives the stock below zero.
C17_NegativeStockOnlyByInterleavedChecks ==
  \A g \in Ingredients :
    stock[g] < 0 =>
      /\ MainPassed
      /\ OtherPassed
      /\ seen[g] = other.seen[g]
      /\ seen[g] >= required[g]
      /\ other.seen[g] >= other.required[g]

\* Both orders accepted, the first one committed, and an ingredient overdrawn.
C17_Witness ==
  /\ pc = "done"
  /\ outcome = "ok"
  /\ Persisted # <<>>
  /\ other.status = "ok"
  /\ \E g \in Ingredients : stock[g] < 0

OrderIds(rows) == { rows[k].order_id : k \in 1..Len(rows) }

PassedToEngine == DepleteArg(order_data, orders_to_insert)

C20_ExpandedMealsAreResolvedMeals ==
  calls.deplete = 1 => calls.meals = DistinctMeals

====
